---------------------------- MODULE Spec2Model ----------------------------
(***************************************************************************)
(* Board reconciliation and gantry motion of the LEJAnD chess board.       *)
(*                                                                         *)
(* Two sketches are modelled:                                              *)
(*   mcu-max-serial.ino              sensor board + serial simulation      *)
(*   mcu-max-serial-esp32-board.ino  serial moves + stepper gantry         *)
(*                                                                         *)
(* Representation                                                          *)
(*   - a uint64_t occupancy bitmap is the set of its bit indexes (0..63)   *)
(*     that are 1 (1 = empty square, 0 = piece present);                   *)
(*   - a char is its ASCII code, a C string a function 0..4 -> code with a *)
(*     NUL (0) terminator;                                                 *)
(*   - mcumax_square is an 8-bit value, MCUMAX_SQUARE_INVALID = 0x80;      *)
(*   - the mcu-max engine is an external library: its position is the list *)
(*     of moves applied to it, its legal-move list and its replies are     *)
(*     chosen by the environment.                                          *)
(***************************************************************************)
EXTENDS Integers, Sequences, FiniteSets, TLC

VARIABLES
    \* ---- mcu-max-serial.ino globals
    simulation_mode,        \* bool simulation_mode
    previous_board_state,   \* uint64_t previous_board_state
    current_board_state,    \* uint64_t current_board_state (confirmed bitmap B)
    ignore_next_change,     \* bool ignore_next_change
    simulated_board_state,  \* uint64_t simulated_board_state
    sensor_board_state,     \* what the hall sensors read (real mode)
    \* ---- shared by both sketches
    serial_input,           \* char serial_input[5]
    rx,                     \* characters waiting in the Serial receive FIFO
    position,               \* engine position: moves applied since mcumax_init()
    valid_moves,            \* mcumax_search_valid_moves() at this position
    \* ---- locals of the last loop() run, kept for observation
    new_board_state,        \* loop: new_board_state
    state_before_move,      \* loop: state_before_move
    detected,               \* result of the last detectMove call
    is_valid_move,          \* loop: is_valid_move
    ai_move,                \* loop: ai_move / bot_move
    search_position,        \* engine position when mcumax_search_best_move ran
    outcome,                \* branch the last loop() run took
    command_result,         \* what the last loop() run did with the serial command
    call,                   \* a conversion function called on its own: name,
                            \* argument and, once it has returned, result
    \* ---- mcu-max-serial-esp32-board.ino
    pc,                     \* control position inside setup()/loop()
    current_x_steps,        \* int32_t current_x_steps
    current_y_steps,        \* int32_t current_y_steps
    magnet,                 \* level of PIN_MAGNET
    dir_pin,                \* levels of PIN_X_DIR / PIN_Y_DIR
    pulses,                 \* signed step pulses per axis since homing finished
    homing,                 \* the phases the running home_gantry has gone through
    guard_exhausted,        \* per axis: a homing loop ended on its step guard with
                            \* the limit switch still not active
    homed,                  \* per axis: home_gantry has reset its logical position
    oob_write               \* a write landed outside serial_input[0..4]

vars == << simulation_mode, previous_board_state, current_board_state,
           ignore_next_change, simulated_board_state, sensor_board_state,
           serial_input, rx, position, valid_moves,
           new_board_state, state_before_move, detected, is_valid_move,
           ai_move, search_position, outcome, command_result, call,
           pc, current_x_steps, current_y_steps, magnet, dir_pin, pulses,
           homing, guard_exhausted, homed, oob_write >>

gantryVars == << pc, current_x_steps, current_y_steps, magnet, dir_pin,
                 pulses, homing, guard_exhausted, homed, oob_write >>

-----------------------------------------------------------------------------
(* Bounds of the model *)

NumSquares == 3        \* algebraic squares the environment plays on
MaxLegal == 2          \* size of the legal-move lists the engine returns
MaxPlies == 3          \* loop() stops being scheduled after this many plies
NumDetectSquares == 5  \* bit positions the detector inputs differ in
MaxFlips == 3          \* number of differing bits of a detector input pair
MaxTrip == 0           \* pulses a homing phase may need before the limit trips

-----------------------------------------------------------------------------
(* Characters *)

CH_NUL == 0
CH_BS == 8
CH_NL == 10
CH_CR == 13
CH_SPACE == 32
CH_DEL == 127
CH_1 == 49
CH_8 == 56
CH_a == 97

BYTE == 256

\* "show"
SHOW == << 115, 104, 111, 119 >>

\* a C string in a 5-byte buffer, from the sequence of its characters
CStr(seq) == [i \in 0..4 |-> IF i < Len(seq) THEN seq[i + 1] ELSE CH_NUL]

\* strlen: index of the first NUL
strlen(s) == CHOOSE n \in 0..4 : s[n] = CH_NUL /\ \A j \in 0..(n - 1) : s[j] # CH_NUL

\* the characters of a C string
Chars(s) == [i \in 1..strlen(s) |-> s[i - 1]]

-----------------------------------------------------------------------------
(* Square encodings: mcu-max-serial.ino *)

MCUMAX_SQUARE_INVALID == 128

\* indexToSquare with the rank not mirrored
indexToSquareUnmirrored(index) ==
    LET file == index \div 8
        rank == index % 8
    IN  << CH_a + file, CH_1 + rank >>

\* get_square with the nibbles exchanged
get_square_swapped(s, off) ==
    LET rank == (s[off] - CH_a) % BYTE
        file == (CH_8 - s[off + 1]) % BYTE
    IN  IF rank > 7 THEN MCUMAX_SQUARE_INVALID
        ELSE IF file > 7 THEN MCUMAX_SQUARE_INVALID
        ELSE (16 * rank + file) % BYTE

squareToIndex(square) ==
    LET file == square[0] - CH_a
        rank == square[1] - CH_1
        columnStart == file * 8
    IN  columnStart + (7 - rank)

\* the two characters written by indexToSquare (the NUL is implied)
indexToSquare(index) ==
    LET file == index \div 8
        rank == 7 - (index % 8)
    IN  << CH_a + file, CH_1 + rank >>

\* get_square(s + off): uint8_t arithmetic
get_square(s, off) ==
    LET rank == (s[off] - CH_a) % BYTE
        file == (CH_8 - s[off + 1]) % BYTE
    IN  IF rank > 7 THEN MCUMAX_SQUARE_INVALID
        ELSE IF file > 7 THEN MCUMAX_SQUARE_INVALID
        ELSE (16 * file + rank) % BYTE

\* the two characters print_square / mcumaxMoveToString write for one square
squareToChars(square) ==
    << CH_a + (square % 8), CH_1 + 7 - ((square \div 16) % 8) >>

mcumaxMoveToString(move) ==
    CStr(squareToChars(move.from) \o squareToChars(move.to))

parseMove(move) ==
    [fromIndex |-> squareToIndex([i \in 0..1 |-> move[i]]),
     toIndex   |-> squareToIndex([i \in 0..1 |-> move[i + 2]])]

\* no conversion function is being called on its own
NoCall == [fn |-> "none", arg |-> << >>, result |-> << >>, done |-> FALSE]

-----------------------------------------------------------------------------
(* Occupancy bitmaps *)

BitIndexes == 0..63

\* value & (1ULL << i)
Bit(value, i) == i \in value

\* a ^ b
Xor(a, b) == (a \ b) \cup (b \ a)

\* 0x3C3C3C3C3C3C3C3C: every byte is 0x3C
START_FILE_BYTE == 60

StartingPosition ==
    {i \in BitIndexes : (START_FILE_BYTE \div (2 ^ (i % 8))) % 2 = 1}

simulatePhysicalMove(state, move_str) ==
    LET p == parseMove(move_str)
    IN  (state \cup {p.fromIndex}) \ {p.toIndex}

-----------------------------------------------------------------------------
(* detectMove: mcu-max-serial.ino *)

\* detectMove returned false: move_str is not written
NoMove == [found |-> FALSE, move_str |-> CStr(<< >>)]

\* for (i = 0; i < 64; i++) if (changed & (1ULL << i)) changed_squares[num_changed++] = i
RECURSIVE FindChanged(_, _)
FindChanged(changed, i) ==
    IF i >= 64 THEN << >>
    ELSE (IF Bit(changed, i) THEN << i >> ELSE << >>) \o FindChanged(changed, i + 1)

\* Classify with the two transition directions exchanged
RECURSIVE ClassifySwapped(_, _, _, _, _)
ClassifySwapped(prev_state, curr_state, changed_squares, i, acc) ==
    IF i >= 2 THEN acc
    ELSE LET sq == changed_squares[i + 1]
             was_occupied == ~Bit(prev_state, sq)
             is_occupied == ~Bit(curr_state, sq)
         IN  ClassifySwapped(prev_state, curr_state, changed_squares, i + 1,
                 IF was_occupied /\ ~is_occupied
                 THEN [acc EXCEPT !.to_idx = sq]
                 ELSE IF ~was_occupied /\ is_occupied
                 THEN [acc EXCEPT !.from_idx = sq]
                 ELSE acc)

\* for (i = 0; i < 2; i++) { classify changed_squares[i] }
RECURSIVE Classify(_, _, _, _, _)
Classify(prev_state, curr_state, changed_squares, i, acc) ==
    IF i >= 2 THEN acc
    ELSE LET sq == changed_squares[i + 1]
             was_occupied == ~Bit(prev_state, sq)
             is_occupied == ~Bit(curr_state, sq)
         IN  Classify(prev_state, curr_state, changed_squares, i + 1,
                 IF was_occupied /\ ~is_occupied
                 THEN [acc EXCEPT !.from_idx = sq]
                 ELSE IF ~was_occupied /\ is_occupied
                 THEN [acc EXCEPT !.to_idx = sq]
                 ELSE acc)

detectMove(prev_state, curr_state) ==
    LET changed == Xor(prev_state, curr_state)
        changed_squares == FindChanged(changed, 0)
        num_changed == Len(changed_squares)
    IN  IF num_changed = 2
        THEN LET r == Classify(prev_state, curr_state, changed_squares, 0,
                               [from_idx |-> -1, to_idx |-> -1])
             IN  IF r.from_idx >= 0 /\ r.to_idx >= 0
                 THEN [found |-> TRUE,
                       move_str |-> CStr(indexToSquare(r.from_idx)
                                         \o indexToSquare(r.to_idx))]
                 ELSE NoMove
        ELSE NoMove

-----------------------------------------------------------------------------
(* The mcu-max engine, as the sketches use it *)

MCUMAX_MOVE_INVALID ==
    [from |-> MCUMAX_SQUARE_INVALID, to |-> MCUMAX_SQUARE_INVALID]

\* the algebraic squares the environment plays on: e2, e7, e4, e5, d2
SquarePool ==
    << << CH_a + 4, CH_1 + 1 >>, << CH_a + 4, CH_1 + 6 >>, << CH_a + 4, CH_1 + 3 >>,
       << CH_a + 4, CH_1 + 4 >>, << CH_a + 3, CH_1 + 1 >>, << CH_a + 3, CH_1 + 3 >> >>

TestSquares == {SquarePool[i] : i \in 1..NumSquares}

EngineSquares == {get_square(CStr(sq), 0) : sq \in TestSquares}

\* squares holding a piece after mcumax_init(): rows 0, 1, 6, 7 of the 0x88 board
EngineStart == {16 * row + file : row \in {0, 1, 6, 7}, file \in 0..7}

\* squares holding a piece after the moves of a position
RECURSIVE EngineOccupied(_)
EngineOccupied(pos) ==
    IF pos = << >> THEN EngineStart
    ELSE LET m == pos[Len(pos)]
         IN  (EngineOccupied(SubSeq(pos, 1, Len(pos) - 1)) \ {m.from}) \cup {m.to}

\* moves the engine may list or reply with: from a square that holds a piece
EngineMoves(pos) ==
    {[from |-> f, to |-> t] :
        f \in EngineSquares \cap EngineOccupied(pos), t \in EngineSquares} \
    {[from |-> q, to |-> q] : q \in EngineSquares}

\* the lists mcumax_search_valid_moves may return at a position
LegalLists(pos) == {S \in SUBSET EngineMoves(pos) : Cardinality(S) <= MaxLegal}

\* what mcumax_search_best_move may return at a position
Replies(pos) == EngineMoves(pos) \cup {MCUMAX_MOVE_INVALID}

\* mcumax_play_move: the position after the call
mcumax_play_move(pos, move, ok) == IF ok THEN Append(pos, move) ELSE pos

-----------------------------------------------------------------------------
(* Serial input: mcu-max-serial.ino *)

NoChar == -1

init_serial_input(buf) == [buf EXCEPT ![0] = CH_NUL]

\* strcat(serial_input, s) with a one-character s
strcat(buf, c) ==
    LET n == strlen(buf)
    IN  [buf EXCEPT ![n] = c, ![n + 1] = CH_NUL]

\* one call of get_serial_input; c is the character read, NoChar when
\* Serial.available() is 0
get_serial_input(buf, c) ==
    IF c = NoChar THEN [ret |-> FALSE, buf |-> buf]
    ELSE IF c = CH_NL THEN [ret |-> TRUE, buf |-> buf]
    ELSE LET n == strlen(buf)
             erased == IF c = CH_BS /\ n # 0
                       THEN [buf EXCEPT ![n - 1] = CH_NUL]
                       ELSE buf
             stored == IF c >= CH_SPACE /\ strlen(erased) < 4
                       THEN strcat(erased, c)
                       ELSE erased
         IN  [ret |-> FALSE, buf |-> stored]

readBoardSensors ==
    IF simulation_mode THEN simulated_board_state ELSE sensor_board_state

\* validateAndSimulateMove simulating the move before it is checked
validateAndSimulateMoveUnchecked(valid, simulated, move_str) ==
    LET move == [from |-> get_square(move_str, 0), to |-> get_square(move_str, 2)]
    IN  [ok |-> move \in valid,
         simulated |-> simulatePhysicalMove(simulated, move_str)]

\* validateAndSimulateMove: the result and the simulated board after the call
validateAndSimulateMove(valid, simulated, move_str) ==
    LET move == [from |-> get_square(move_str, 0), to |-> get_square(move_str, 2)]
    IN  IF move \notin valid
        THEN [ok |-> FALSE, simulated |-> simulated]
        ELSE [ok |-> TRUE, simulated |-> simulatePhysicalMove(simulated, move_str)]

-----------------------------------------------------------------------------
(* loop(), first half: poll the sensors and reconcile (lines 338-424).      *)
(* play_ok, reply, reply_ok are the engine's answers to mcumax_play_move of *)
(* the detected move, mcumax_search_best_move and mcumax_play_move of the   *)
(* reply.                                                                   *)

\* the observable state of one loop() run that found nothing new
Unchanged(new) ==
    [current |-> current_board_state,
     previous |-> previous_board_state,
     ignore |-> ignore_next_change,
     simulated |-> simulated_board_state,
     position |-> position,
     new_board_state |-> new,
     state_before_move |-> current_board_state,
     detected |-> NoMove,
     is_valid_move |-> FALSE,
     ai_move |-> MCUMAX_MOVE_INVALID,
     search_position |-> << >>,
     outcome |-> "NoChange"]

\* lines 342-344: the new snapshot becomes current_board_state
TakeSnapshot(st, new) ==
    [st EXCEPT !.state_before_move = st.current,
               !.previous = st.current,
               !.current = new]

\* lines 347-353: the change is the one the sketch made itself
AbsorbChange(st) ==
    [st EXCEPT !.ignore = FALSE, !.outcome = "SelfMoveAbsorbed"]

\* lines 374-387: the move is refused
RefuseMove(st) ==
    [st EXCEPT
        !.simulated = IF simulation_mode THEN st.state_before_move ELSE @,
        !.current = IF simulation_mode THEN st.state_before_move ELSE @,
        !.outcome = "IllegalMove"]

\* AcceptMove asking for the reply before the move is played
AcceptMoveSearchFirst(st, move, reply) ==
    [st EXCEPT !.position = mcumax_play_move(st.position, move, TRUE),
               !.search_position = st.position,
               !.ai_move = reply]

\* line 374 (mcumax_play_move succeeded) and line 393: the engine plays the
\* move, then searches its reply
AcceptMove(st, move, reply) ==
    [st EXCEPT !.position = mcumax_play_move(st.position, move, TRUE),
               !.search_position = mcumax_play_move(st.position, move, TRUE),
               !.ai_move = reply]

\* GameOver falling through to the flag of the reply branch
GameOverSetsFlag(st) == [st EXCEPT !.outcome = "GameOver", !.ignore = TRUE]

\* lines 394-399: no reply
GameOver(st) == [st EXCEPT !.outcome = "GameOver"]

\* lines 400-418: the reply is played and, in simulation mode, made on the board
PlayReply(st, reply) ==
    [st EXCEPT
        !.position = mcumax_play_move(st.position, reply, TRUE),
        !.ignore = IF simulation_mode THEN TRUE ELSE @,
        !.simulated = IF simulation_mode
                      THEN simulatePhysicalMove(@, mcumaxMoveToString(reply))
                      ELSE @,
        !.outcome = "ReplyPlayed"]

Poll(play_ok, reply, reply_ok) ==
    LET new == readBoardSensors
    IN  IF new = current_board_state THEN Unchanged(new)
        ELSE LET changed == TakeSnapshot(Unchanged(new), new)
             IN
        IF ignore_next_change THEN AbsorbChange(changed)
        ELSE LET d == detectMove(changed.previous, changed.current)
             IN
        IF ~d.found THEN [changed EXCEPT !.outcome = "Unrecognized"]
        ELSE LET move == [from |-> get_square(d.move_str, 0),
                          to |-> get_square(d.move_str, 2)]
                 valid == move \in valid_moves
                 seen == [changed EXCEPT !.detected = d, !.is_valid_move = valid]
             IN
        IF ~valid \/ ~play_ok THEN RefuseMove(seen)
        ELSE IF reply.from = MCUMAX_SQUARE_INVALID
        THEN GameOver(AcceptMove(seen, move, reply))
        ELSE IF ~reply_ok
        THEN [AcceptMove(seen, move, reply) EXCEPT !.outcome = "ReplyRejected"]
        ELSE PlayReply(AcceptMove(seen, move, reply), reply)

(* loop(), second half: the serial command of simulation mode (lines 427-452). *)
(* c is the character get_serial_input reads, valid the engine's legal-move    *)
(* list at the position the first half left.                                   *)
Command(simulated, valid, c) ==
    LET g == get_serial_input(serial_input, c)
    IN  IF ~g.ret
        THEN [simulated |-> simulated, buf |-> g.buf, result |-> "NoCommand"]
        ELSE IF Chars(g.buf) = SHOW
        THEN [simulated |-> simulated, buf |-> init_serial_input(g.buf),
              result |-> "Show"]
        ELSE IF strlen(g.buf) = 4
        THEN LET v == validateAndSimulateMove(valid, simulated, g.buf)
             IN  [simulated |-> v.simulated,
                  buf |-> init_serial_input(g.buf),
                  result |-> IF v.ok THEN "MoveSimulated" ELSE "InvalidMove"]
        ELSE [simulated |-> simulated, buf |-> init_serial_input(g.buf),
              result |-> "Ignored"]

NL == << CH_NL >>

\* the lines an operator types
Lines ==
    {a \o b \o NL : a \in TestSquares, b \in TestSquares}
    \cup {SHOW \o NL, NL, SquarePool[1] \o NL,
          SquarePool[1] \o << CH_BS, CH_BS >> \o SquarePool[1] \o SquarePool[3] \o NL,
          SquarePool[1] \o SquarePool[3] \o SquarePool[1] \o NL}

\* what reaches the serial port before loop() reads it: a line when the FIFO
\* is empty (real mode never reads the port)
Arrivals ==
    IF simulation_mode /\ rx = << >> THEN Lines \cup {<< >>} ELSE {<< >>}

\* the move loop() submits to the engine in this run, if it submits one
Submitted ==
    LET new == readBoardSensors
        d == detectMove(current_board_state, new)
    IN  IF new # current_board_state /\ ~ignore_next_change /\ d.found
        THEN {[from |-> get_square(d.move_str, 0), to |-> get_square(d.move_str, 2)]}
             \cap valid_moves
        ELSE {}

\* the engine's answers that loop() asks for in this run
PlayAnswers == IF Submitted = {} THEN {FALSE} ELSE BOOLEAN

SearchAnswers(play_ok) ==
    IF play_ok
    THEN UNION {Replies(mcumax_play_move(position, m, TRUE)) : m \in Submitted}
    ELSE {MCUMAX_MOVE_INVALID}

ReplyAnswers(reply) ==
    IF reply.from = MCUMAX_SQUARE_INVALID THEN {FALSE} ELSE BOOLEAN

\* loop() of mcu-max-serial.ino
loop ==
    /\ pc = "serial"
    /\ Len(position) < MaxPlies
    /\ \E play_ok \in PlayAnswers :
       \E reply \in SearchAnswers(play_ok) :
       \E reply_ok \in ReplyAnswers(reply) :
       \E arrived \in Arrivals :
         \E p \in {Poll(play_ok, reply, reply_ok)},
            c \in {IF rx \o arrived # << >> THEN Head(rx \o arrived) ELSE NoChar} :
             /\ \E valid \in LegalLists(p.position) :
                  /\ p.position = position => valid = valid_moves
                  /\ valid_moves' = valid
                  /\ \E k \in {IF simulation_mode
                               THEN Command(p.simulated, valid, c)
                               ELSE [simulated |-> p.simulated,
                                     buf |-> serial_input,
                                     result |-> "NoCommand"]} :
                         /\ simulated_board_state' = k.simulated
                         /\ serial_input' = k.buf
                         /\ command_result' = k.result
             /\ rx' = IF c = NoChar THEN rx ELSE Tail(rx \o arrived)
             /\ previous_board_state' = p.previous
             /\ current_board_state' = p.current
             /\ ignore_next_change' = p.ignore
             /\ position' = p.position
             /\ new_board_state' = p.new_board_state
             /\ state_before_move' = p.state_before_move
             /\ detected' = p.detected
             /\ is_valid_move' = p.is_valid_move
             /\ ai_move' = p.ai_move
             /\ search_position' = p.search_position
             /\ outcome' = p.outcome
    /\ UNCHANGED << simulation_mode, sensor_board_state, call >>
    /\ UNCHANGED gantryVars

-----------------------------------------------------------------------------
(* Environment of mcu-max-serial.ino *)

\* a piece is lifted from, or put down on, a square of the real board
HumanMovesPiece ==
    /\ pc = "serial"
    /\ ~simulation_mode
    /\ Len(position) < MaxPlies
    /\ \E sq \in TestSquares :
         sensor_board_state' = Xor(sensor_board_state, {squareToIndex(CStr(sq))})
    /\ outcome' = "PieceMoved"
    /\ UNCHANGED << simulation_mode, previous_board_state, current_board_state,
                    ignore_next_change, simulated_board_state,
                    serial_input, rx, position, valid_moves, new_board_state,
                    state_before_move, detected, is_valid_move, ai_move,
                    search_position, command_result, call >>
    /\ UNCHANGED gantryVars

\* the gantry sketch's variables while the serial sketch runs
GantryUnused ==
    /\ current_x_steps = 0
    /\ current_y_steps = 0
    /\ magnet = FALSE
    /\ dir_pin = [a \in {"x", "y"} |-> FALSE]
    /\ pulses = [a \in {"x", "y"} |-> 0]
    /\ homing = << >>
    /\ guard_exhausted = [a \in {"x", "y"} |-> FALSE]
    /\ homed = [a \in {"x", "y"} |-> FALSE]
    /\ oob_write = FALSE

\* the state setup() of mcu-max-serial.ino leaves
InitSerial ==
    /\ pc = "serial"
    /\ simulation_mode \in BOOLEAN
    /\ simulated_board_state = StartingPosition
    /\ sensor_board_state = StartingPosition
    /\ previous_board_state = readBoardSensors
    /\ current_board_state = previous_board_state
    /\ ignore_next_change = FALSE
    /\ serial_input = init_serial_input(CStr(<< >>))
    /\ rx = << >>
    /\ position = << >>
    /\ valid_moves \in LegalLists(<< >>)
    /\ new_board_state = current_board_state
    /\ state_before_move = current_board_state
    /\ detected = NoMove
    /\ is_valid_move = FALSE
    /\ ai_move = MCUMAX_MOVE_INVALID
    /\ search_position = << >>
    /\ outcome = "Setup"
    /\ command_result = "NoCommand"
    /\ call = NoCall
    /\ GantryUnused

NextSerial == loop \/ HumanMovesPiece

SpecSerial == InitSerial /\ [][NextSerial]_vars

-----------------------------------------------------------------------------
(* detectMove on its own: any pair of bitmaps                               *)

\* bit positions the input pairs differ in: a8, a1, b4, e5, e4, h1, b8, h8
DetectPool == << 0, 7, 12, 35, 36, 63, 8, 56 >>

DetectBits == {DetectPool[i] : i \in 1..NumDetectSquares}

DetectBases == {StartingPosition, {}, BitIndexes, {0, 12, 36}}

InitDetect ==
    /\ pc = "detect"
    /\ simulation_mode = TRUE
    /\ simulated_board_state = StartingPosition
    /\ sensor_board_state = StartingPosition
    /\ previous_board_state \in DetectBases
    /\ \E flips \in {F \in SUBSET DetectBits : Cardinality(F) <= MaxFlips} :
         current_board_state = Xor(previous_board_state, flips)
    /\ ignore_next_change = FALSE
    /\ serial_input = init_serial_input(CStr(<< >>))
    /\ rx = << >>
    /\ position = << >>
    /\ valid_moves = {}
    /\ new_board_state = current_board_state
    /\ state_before_move = previous_board_state
    /\ detected = NoMove
    /\ is_valid_move = FALSE
    /\ ai_move = MCUMAX_MOVE_INVALID
    /\ search_position = << >>
    /\ outcome = "Input"
    /\ command_result = "NoCommand"
    /\ call = NoCall
    /\ GantryUnused

\* one call detectMove(previous_board_state, current_board_state, move_str)
CallDetectMove ==
    /\ pc = "detect"
    /\ outcome = "Input"
    /\ detected' = detectMove(previous_board_state, current_board_state)
    /\ outcome' = "Detected"
    /\ UNCHANGED << simulation_mode, previous_board_state, current_board_state,
                    ignore_next_change, simulated_board_state, sensor_board_state,
                    serial_input, rx, position, valid_moves, new_board_state,
                    state_before_move, is_valid_move, ai_move, search_position,
                    command_result, call >>
    /\ UNCHANGED gantryVars

NextDetect == CallDetectMove

SpecDetect == InitDetect /\ [][NextDetect]_vars

-----------------------------------------------------------------------------
(* Gantry: mcu-max-serial-esp32-board.ino *)

X_STEPS_PER_SQUARE == 200
Y_STEPS_PER_SQUARE == 200
HOMING_BACKOFF_STEPS == 120
STEP_PULSE_US == 700
HOME_FEED_DELAY_US == 900
HOMING_GUARD == 50000
REAPPROACH_EXTRA_US == 250

HIGH == TRUE
LOW == FALSE

Axes == {"x", "y"}

abs(n) == IF n < 0 THEN -n ELSE n

\* move_axis_relative without the direction write
move_axis_relative_keeps_dir(dir, delta_steps, pulse_delay_us) ==
    [dir |-> dir, steps |-> abs(delta_steps), delay |-> pulse_delay_us]

\* move_axis_relative: the level it leaves on the direction pin and the pulses
\* it emits
move_axis_relative(dir, delta_steps, pulse_delay_us) ==
    IF delta_steps = 0
    THEN [dir |-> dir, steps |-> 0, delay |-> pulse_delay_us]
    ELSE [dir |-> IF delta_steps > 0 THEN HIGH ELSE LOW,
          steps |-> abs(delta_steps),
          delay |-> pulse_delay_us]

\* square_to_steps with the rank counted from the far side
square_to_steps_far_side(square) ==
    LET file == square % 16
        board_row == (square \div 16) % 8
    IN  [x |-> file * X_STEPS_PER_SQUARE, y |-> board_row * Y_STEPS_PER_SQUARE]

\* the carriage travels one step per pulse, forward when the direction pin is HIGH
Travelled(m) == IF m.dir = HIGH THEN m.steps ELSE -m.steps

square_to_steps(square) ==
    LET file == square % 16
        board_row == (square \div 16) % 8
        rank_from_white == 7 - board_row
    IN  [x |-> file * X_STEPS_PER_SQUARE, y |-> rank_from_white * Y_STEPS_PER_SQUARE]

\* execute_bot_move returns at once for these moves
BotMoveSkipped(move) ==
    move.from = MCUMAX_SQUARE_INVALID \/ move.to = MCUMAX_SQUARE_INVALID

\* HomeLoop without the step guard
HomeLoopUnguarded(trip) == [steps |-> trip, active |-> TRUE]

\* one while loop of home_axis: trip is the number of reads of the limit pin
\* that are not active before the first active one
HomeLoop(trip) ==
    [steps |-> IF trip < HOMING_GUARD THEN trip ELSE HOMING_GUARD,
     active |-> trip <= HOMING_GUARD]

\* what the limit switch may do during one while loop of home_axis
TripChoices == (0..MaxTrip) \cup {HOMING_GUARD, HOMING_GUARD + 1}

\* the half of move_xy_to_steps that moves one axis
AxisTo(axis, target) ==
    LET cur == IF axis = "x" THEN current_x_steps ELSE current_y_steps
        m == move_axis_relative(dir_pin[axis], target - cur, STEP_PULSE_US)
    IN  /\ dir_pin' = [dir_pin EXCEPT ![axis] = m.dir]
        /\ pulses' = [pulses EXCEPT ![axis] = @ + Travelled(m)]
        /\ IF axis = "x"
           THEN current_x_steps' = target /\ UNCHANGED current_y_steps
           ELSE current_y_steps' = target /\ UNCHANGED current_x_steps

engineVars == << position, valid_moves, is_valid_move, ai_move, search_position >>

boardVars == << simulation_mode, previous_board_state, current_board_state,
                ignore_next_change, simulated_board_state, sensor_board_state,
                new_board_state, state_before_move, detected, command_result >>

AxisOf(p) == IF p \in {"home_x_seek", "home_x_backoff", "home_x_reapproach"}
             THEN "x" ELSE "y"

\* home_axis, first while loop (lines 101-107)
home_seek ==
    /\ pc \in {"home_x_seek", "home_y_seek"}
    /\ \E trip \in TripChoices :
         LET axis == AxisOf(pc)
             r == HomeLoop(trip)
         IN  /\ dir_pin' = [dir_pin EXCEPT ![axis] = LOW]
             /\ homing' = Append(homing,
                    [axis |-> axis, phase |-> "seek", dir |-> LOW,
                     steps |-> r.steps, delay |-> HOME_FEED_DELAY_US,
                     active |-> r.active])
             /\ guard_exhausted' = [guard_exhausted EXCEPT ![axis] = @ \/ ~r.active]
    /\ pc' = IF pc = "home_x_seek" THEN "home_x_backoff" ELSE "home_y_backoff"
    /\ UNCHANGED << current_x_steps, current_y_steps, magnet, pulses, homed,
                    oob_write, serial_input, rx, outcome >>
    /\ UNCHANGED engineVars
    /\ UNCHANGED call
    /\ UNCHANGED boardVars

\* home_axis, back-off (line 109)
home_backoff ==
    /\ pc \in {"home_x_backoff", "home_y_backoff"}
    /\ LET axis == AxisOf(pc)
           m == move_axis_relative(dir_pin[axis], HOMING_BACKOFF_STEPS,
                                   HOME_FEED_DELAY_US)
       IN  /\ dir_pin' = [dir_pin EXCEPT ![axis] = m.dir]
           /\ homing' = Append(homing,
                  [axis |-> axis, phase |-> "backoff", dir |-> m.dir,
                   steps |-> m.steps, delay |-> m.delay, active |-> FALSE])
    /\ UNCHANGED guard_exhausted
    /\ pc' = IF pc = "home_x_backoff" THEN "home_x_reapproach"
             ELSE "home_y_reapproach"
    /\ UNCHANGED << current_x_steps, current_y_steps, magnet, pulses, homed,
                    oob_write, serial_input, rx, outcome >>
    /\ UNCHANGED engineVars
    /\ UNCHANGED call
    /\ UNCHANGED boardVars

\* home_axis, second while loop (lines 111-116)
home_reapproach ==
    /\ pc \in {"home_x_reapproach", "home_y_reapproach"}
    /\ \E trip \in TripChoices :
         LET axis == AxisOf(pc)
             r == HomeLoop(trip)
         IN  /\ dir_pin' = [dir_pin EXCEPT ![axis] = LOW]
             /\ homing' = Append(homing,
                    [axis |-> axis, phase |-> "reapproach", dir |-> LOW,
                     steps |-> r.steps,
                     delay |-> HOME_FEED_DELAY_US + REAPPROACH_EXTRA_US,
                     active |-> r.active])
             /\ guard_exhausted' = [guard_exhausted EXCEPT ![axis] = @ \/ ~r.active]
    /\ pc' = IF pc = "home_x_reapproach" THEN "home_y_seek" ELSE "home_reset"
    /\ UNCHANGED << current_x_steps, current_y_steps, magnet, pulses, homed,
                    oob_write, serial_input, rx, outcome >>
    /\ UNCHANGED engineVars
    /\ UNCHANGED call
    /\ UNCHANGED boardVars

\* home_gantry, after both home_axis calls (lines 122-123), and the rest of setup()
home_reset ==
    /\ pc = "home_reset"
    /\ current_x_steps' = 0
    /\ current_y_steps' = 0
    /\ homed' = [a \in Axes |-> TRUE]
    /\ pulses' = [a \in Axes |-> 0]
    /\ outcome' = "Ready"
    /\ pc' = "ready"
    /\ UNCHANGED << magnet, dir_pin, homing, guard_exhausted, oob_write,
                    serial_input, rx >>
    /\ UNCHANGED engineVars
    /\ UNCHANGED call
    /\ UNCHANGED boardVars

-----------------------------------------------------------------------------
(* Serial input and loop(): mcu-max-serial-esp32-board.ino *)

\* lines 230-233: store a printable character; the terminator goes to index
\* strlen + 1 of the buffer as it is after the character was stored
StoreChar(buf, c) ==
    LET n == strlen(buf)
        put == [buf EXCEPT ![n] = c]
        at == strlen(put) + 1
    IN  [buf |-> IF at <= 4 THEN [put EXCEPT ![at] = CH_NUL] ELSE put,
         oob |-> at > 4]

\* get_serial_input: reads the FIFO q until a line end or until it is empty
RECURSIVE get_serial_input_esp32(_, _, _)
get_serial_input_esp32(buf, q, oob) ==
    IF q = << >> THEN [ret |-> FALSE, buf |-> buf, rx |-> q, oob |-> oob]
    ELSE LET c == Head(q)
         IN  IF c = CH_NL \/ c = CH_CR
             THEN [ret |-> strlen(buf) = 4, buf |-> buf, rx |-> Tail(q), oob |-> oob]
             ELSE IF c = CH_BS \/ c = CH_DEL
             THEN LET n == strlen(buf)
                  IN  get_serial_input_esp32(
                          IF n > 0 THEN [buf EXCEPT ![n - 1] = CH_NUL] ELSE buf,
                          Tail(q), oob)
             ELSE IF c >= CH_SPACE /\ strlen(buf) < 4
             THEN LET st == StoreChar(buf, c)
                  IN  get_serial_input_esp32(st.buf, Tail(q), oob \/ st.oob)
             ELSE get_serial_input_esp32(buf, Tail(q), oob)

\* the line a terminal holds after the characters of q up to the first line
\* end: backspace and DEL erase, printable characters are kept while there
\* are fewer than 4
RECURSIVE LineEditor(_, _)
LineEditor(line, q) ==
    IF q = << >> THEN line
    ELSE LET c == Head(q)
         IN  IF c = CH_NL \/ c = CH_CR THEN line
             ELSE IF c = CH_BS \/ c = CH_DEL
             THEN LineEditor(IF line = << >> THEN line
                             ELSE SubSeq(line, 1, Len(line) - 1), Tail(q))
             ELSE IF c >= CH_SPACE /\ Len(line) < 4
             THEN LineEditor(Append(line, c), Tail(q))
             ELSE LineEditor(line, Tail(q))

\* the lines an operator types to the gantry sketch
LinesEsp32 ==
    {a \o b \o NL : a \in TestSquares, b \in TestSquares}
    \cup {NL, SquarePool[1], SquarePool[1] \o << CH_CR >>,
          SquarePool[1] \o << CH_BS, CH_DEL >> \o SquarePool[1] \o SquarePool[3] \o NL,
          SquarePool[1] \o SquarePool[3] \o SquarePool[1] \o NL}

\* what reaches the serial port of the gantry sketch before loop() reads it
ArrivalsEsp32 == IF rx = << >> THEN LinesEsp32 \cup {<< >>} ELSE {<< >>}

\* the move loop() of the gantry sketch submits in this run, if it submits one
SubmittedEsp32(arrived) ==
    LET g == get_serial_input_esp32(serial_input, rx \o arrived, oob_write)
    IN  IF g.ret
        THEN {[from |-> get_square(g.buf, 0), to |-> get_square(g.buf, 2)]}
             \cap valid_moves
        ELSE {}

\* loop() of the gantry sketch up to the call of execute_bot_move (lines 284-322);
\* arrived is what the serial port received, play_ok, reply, reply_ok are the
\* engine's answers
Turn(arrived, play_ok, reply, reply_ok) ==
    LET g == get_serial_input_esp32(serial_input, rx \o arrived, oob_write)
        base == [buf |-> g.buf, rx |-> g.rx, oob |-> g.oob,
                 ret |-> g.ret, read |-> g.buf,
                 position |-> position,
                 is_valid_move |-> FALSE,
                 ai_move |-> MCUMAX_MOVE_INVALID,
                 search_position |-> << >>,
                 pc |-> "idle",
                 outcome |-> "NoCommand"]
    IN  IF ~g.ret THEN base
        ELSE LET player_move == [from |-> get_square(g.buf, 0),
                                 to |-> get_square(g.buf, 2)]
                 valid == player_move \in valid_moves
             IN
        IF ~valid \/ ~play_ok
        THEN [base EXCEPT !.is_valid_move = valid,
                          !.buf = init_serial_input(g.buf),
                          !.outcome = "InvalidMove"]
        ELSE LET played == [base EXCEPT
                              !.is_valid_move = TRUE,
                              !.position = mcumax_play_move(position, player_move, TRUE),
                              !.search_position =
                                  mcumax_play_move(position, player_move, TRUE),
                              !.ai_move = reply]
             IN
        IF reply.from = MCUMAX_SQUARE_INVALID
        THEN [played EXCEPT !.buf = init_serial_input(g.buf),
                            !.outcome = "GameOver"]
        ELSE IF ~reply_ok
        THEN [played EXCEPT !.buf = init_serial_input(g.buf),
                            !.outcome = "ReplyRejected"]
        ELSE IF BotMoveSkipped(reply)
        THEN [played EXCEPT
                !.position = mcumax_play_move(played.position, reply, TRUE),
                !.buf = init_serial_input(g.buf),
                !.outcome = "ReplyPlayed"]
        ELSE [played EXCEPT
                !.position = mcumax_play_move(played.position, reply, TRUE),
                !.pc = "from_x",
                !.outcome = "ReplyPlayed"]

loop_esp32 ==
    /\ pc \in {"ready", "idle"}
    /\ Len(position) < MaxPlies
    /\ \E arrived \in ArrivalsEsp32 :
       \E play_ok \in (IF SubmittedEsp32(arrived) = {} THEN {FALSE} ELSE BOOLEAN) :
       \E reply \in (IF play_ok
                     THEN UNION {Replies(mcumax_play_move(position, m, TRUE)) :
                                    m \in SubmittedEsp32(arrived)}
                     ELSE {MCUMAX_MOVE_INVALID}) :
       \E reply_ok \in ReplyAnswers(reply) :
         \E t \in {Turn(arrived, play_ok, reply, reply_ok)} :
             /\ \E valid \in LegalLists(t.position) :
                  /\ t.position = position => valid = valid_moves
                  /\ valid_moves' = valid
             /\ serial_input' = t.buf
             /\ rx' = t.rx
             /\ oob_write' = t.oob
             /\ position' = t.position
             /\ is_valid_move' = t.is_valid_move
             /\ ai_move' = t.ai_move
             /\ search_position' = t.search_position
             /\ outcome' = t.outcome
             /\ pc' = t.pc
             /\ call' = [fn |-> "get_serial_input",
                         arg |-> LineEditor(IF call.done THEN << >> ELSE call.arg,
                                            rx \o arrived),
                         result |-> Chars(t.read),
                         done |-> t.ret]
    /\ homing' = << >>
    /\ UNCHANGED << current_x_steps, current_y_steps, magnet, dir_pin, pulses,
                    guard_exhausted, homed >>
    /\ UNCHANGED boardVars

\* execute_bot_move: move_xy_to_steps(from_x, from_y), then (to_x, to_y); one
\* step per axis (lines 93-94, 96-97)
travel_axis ==
    /\ pc \in {"from_x", "from_y", "to_x", "to_y"}
    /\ LET square == IF pc \in {"from_x", "from_y"} THEN ai_move.from ELSE ai_move.to
           target == square_to_steps(square)
       IN  IF pc \in {"from_x", "to_x"}
           THEN AxisTo("x", target.x)
           ELSE AxisTo("y", target.y)
    /\ pc' = CASE pc = "from_x" -> "from_y"
               [] pc = "from_y" -> "magnet_on"
               [] pc = "to_x" -> "to_y"
               [] pc = "to_y" -> "magnet_off"
    /\ UNCHANGED << magnet, homing, homed, guard_exhausted, oob_write,
                    serial_input, rx, outcome >>
    /\ UNCHANGED engineVars
    /\ UNCHANGED call
    /\ UNCHANGED boardVars

\* set_magnet that never raises the pin
set_magnet_stuck(enabled) == magnet' = LOW

set_magnet(enabled) == magnet' = (IF enabled THEN HIGH ELSE LOW)

\* execute_bot_move: set_magnet(true) (line 151)
magnet_on ==
    /\ pc = "magnet_on"
    /\ set_magnet(TRUE)
    /\ pc' = "to_x"
    /\ UNCHANGED << current_x_steps, current_y_steps, dir_pin, pulses, homing,
                    homed, guard_exhausted, oob_write, serial_input, rx, outcome >>
    /\ UNCHANGED engineVars
    /\ UNCHANGED call
    /\ UNCHANGED boardVars

\* execute_bot_move: set_magnet(false) (line 155), then the end of loop()
\* (lines 325-326)
magnet_off ==
    /\ pc = "magnet_off"
    /\ set_magnet(FALSE)
    /\ serial_input' = init_serial_input(serial_input)
    /\ pc' = "idle"
    /\ UNCHANGED << current_x_steps, current_y_steps, dir_pin, pulses, homing,
                    homed, guard_exhausted, oob_write, rx, outcome >>
    /\ UNCHANGED engineVars
    /\ UNCHANGED call
    /\ UNCHANGED boardVars

\* the state in which setup() of the gantry sketch calls home_gantry() (line 277)
InitEsp32 ==
    /\ pc = "home_x_seek"
    /\ simulation_mode = FALSE
    /\ simulated_board_state = StartingPosition
    /\ sensor_board_state = StartingPosition
    /\ previous_board_state = StartingPosition
    /\ current_board_state = StartingPosition
    /\ ignore_next_change = FALSE
    /\ new_board_state = StartingPosition
    /\ state_before_move = StartingPosition
    /\ detected = NoMove
    /\ serial_input = init_serial_input(CStr(<< >>))
    /\ rx = << >>
    /\ position = << >>
    /\ valid_moves \in LegalLists(<< >>)
    /\ is_valid_move = FALSE
    /\ ai_move = MCUMAX_MOVE_INVALID
    /\ search_position = << >>
    /\ outcome = "Setup"
    /\ command_result = "NoCommand"
    /\ call = NoCall
    /\ GantryUnused

NextEsp32 ==
    \/ home_seek
    \/ home_backoff
    \/ home_reapproach
    \/ home_reset
    \/ loop_esp32
    \/ travel_axis
    \/ magnet_on
    \/ magnet_off

SpecEsp32 == InitEsp32 /\ [][NextEsp32]_vars

\* setup() runs home_gantry() to its end: each statement of home_axis and
\* home_gantry is followed by the next one
SpecEsp32Live ==
    /\ SpecEsp32
    /\ WF_vars(home_seek)
    /\ WF_vars(home_backoff)
    /\ WF_vars(home_reapproach)
    /\ WF_vars(home_reset)

-----------------------------------------------------------------------------
(* The conversion functions on their own: any argument                      *)

\* the 64 algebraic squares a1..h8
AlgebraicSquares == {<< CH_a + f, CH_1 + r >> : f \in 0..7, r \in 0..7}

\* first and second characters of the 2-character inputs of get_square:
\* NUL, 'A', '`', 'a'..'h', 'i', DEL, 0xFF and NUL, '/', '0', '1'..'8', '9', ':', 0xFF
FileChars == {CH_NUL, 65, CH_a - 1, CH_a + 8, CH_DEL, BYTE - 1} \cup {CH_a + f : f \in 0..7}

RankChars == {CH_NUL, CH_1 - 2, CH_1 - 1, CH_8 + 1, CH_8 + 2, BYTE - 1}
             \cup {CH_1 + r : r \in 0..7}

\* the 64 squares of the 0x88 board that are on the board
OnBoardSquares == {16 * row + file : row \in 0..7, file \in 0..7}

\* the calls made
Calls ==
    {[fn |-> "indexToSquare", arg |-> i, result |-> << >>, done |-> FALSE] :
        i \in BitIndexes}
    \cup {[fn |-> "squareToIndex", arg |-> sq, result |-> << >>, done |-> FALSE] :
            sq \in AlgebraicSquares}
    \cup {[fn |-> "get_square", arg |-> << a, b >>, result |-> << >>, done |-> FALSE] :
            a \in FileChars, b \in RankChars}
    \cup {[fn |-> "mcumaxMoveToString", arg |-> [from |-> f, to |-> t],
           result |-> << >>, done |-> FALSE] :
            f \in OnBoardSquares, t \in {0, 7, 52, 112, 119}}
    \cup {[fn |-> "square_to_steps", arg |-> sq, result |-> << >>, done |-> FALSE] :
            sq \in OnBoardSquares}

InitConvert ==
    /\ pc = "convert"
    /\ call \in Calls
    /\ simulation_mode = TRUE
    /\ simulated_board_state = StartingPosition
    /\ sensor_board_state = StartingPosition
    /\ previous_board_state = StartingPosition
    /\ current_board_state = StartingPosition
    /\ ignore_next_change = FALSE
    /\ serial_input = init_serial_input(CStr(<< >>))
    /\ rx = << >>
    /\ position = << >>
    /\ valid_moves = {}
    /\ new_board_state = StartingPosition
    /\ state_before_move = StartingPosition
    /\ detected = NoMove
    /\ is_valid_move = FALSE
    /\ ai_move = MCUMAX_MOVE_INVALID
    /\ search_position = << >>
    /\ outcome = "Input"
    /\ command_result = "NoCommand"
    /\ GantryUnused

\* the called function returns
Returns(fn, result) ==
    /\ pc = "convert"
    /\ call.fn = fn
    /\ ~call.done
    /\ call' = [call EXCEPT !.result = result, !.done = TRUE]
    /\ UNCHANGED << simulation_mode, previous_board_state, current_board_state,
                    ignore_next_change, simulated_board_state, sensor_board_state,
                    serial_input, rx, position, valid_moves, new_board_state,
                    state_before_move, detected, is_valid_move, ai_move,
                    search_position, outcome, command_result >>
    /\ UNCHANGED gantryVars

CallIndexToSquare == Returns("indexToSquare", indexToSquare(call.arg))

CallSquareToIndex == Returns("squareToIndex", squareToIndex(CStr(call.arg)))

CallGetSquare == Returns("get_square", get_square(CStr(call.arg), 0))

CallMcumaxMoveToString == Returns("mcumaxMoveToString", mcumaxMoveToString(call.arg))

CallSquareToSteps == Returns("square_to_steps", square_to_steps(call.arg))

NextConvert ==
    \/ CallIndexToSquare
    \/ CallSquareToIndex
    \/ CallGetSquare
    \/ CallMcumaxMoveToString
    \/ CallSquareToSteps

SpecConvert == InitConvert /\ [][NextConvert]_vars

-----------------------------------------------------------------------------
(* execute_bot_move on its own: any move value                              *)

\* endpoint values handed to execute_bot_move: on-board squares (a8, e2, h1),
\* the INVALID sentinel, and values off the board (file 8, file 15, 0x88, 0xFF)
EndpointValues == {0, 100, 119, MCUMAX_SQUARE_INVALID, 8, 15, 136, BYTE - 1}

\* the gantry stands where homing or an earlier move left it
RestingSquares == {112, 100}

InitExecute ==
    /\ pc = "execute"
    /\ ai_move \in [from : EndpointValues, to : EndpointValues]
    /\ \E sq \in RestingSquares :
         /\ current_x_steps = square_to_steps(sq).x
         /\ current_y_steps = square_to_steps(sq).y
         /\ pulses = [a \in Axes |->
                        IF a = "x" THEN square_to_steps(sq).x ELSE square_to_steps(sq).y]
    /\ magnet = LOW
    /\ dir_pin = [a \in Axes |-> LOW]
    /\ homing = << >>
    /\ guard_exhausted = [a \in Axes |-> FALSE]
    /\ homed = [a \in Axes |-> TRUE]
    /\ oob_write = FALSE
    /\ simulation_mode = FALSE
    /\ simulated_board_state = StartingPosition
    /\ sensor_board_state = StartingPosition
    /\ previous_board_state = StartingPosition
    /\ current_board_state = StartingPosition
    /\ ignore_next_change = FALSE
    /\ new_board_state = StartingPosition
    /\ state_before_move = StartingPosition
    /\ detected = NoMove
    /\ serial_input = init_serial_input(CStr(<< >>))
    /\ rx = << >>
    /\ position = << >>
    /\ valid_moves = {}
    /\ is_valid_move = TRUE
    /\ search_position = << >>
    /\ outcome = "ReplyPlayed"
    /\ command_result = "NoCommand"
    /\ call = NoCall

\* execute_bot_move(ai_move): the test of lines 142-144
execute_bot_move ==
    /\ pc = "execute"
    /\ pc' = IF BotMoveSkipped(ai_move) THEN "returned" ELSE "from_x"
    /\ UNCHANGED << current_x_steps, current_y_steps, magnet, dir_pin, pulses,
                    homing, homed, guard_exhausted, oob_write, serial_input, rx,
                    outcome >>
    /\ UNCHANGED engineVars
    /\ UNCHANGED call
    /\ UNCHANGED boardVars

NextExecute ==
    \/ execute_bot_move
    \/ travel_axis
    \/ magnet_on
    \/ magnet_off

SpecExecute == InitExecute /\ [][NextExecute]_vars

\* the gantry sketch and square_to_steps on its own
SpecGantry == (InitEsp32 \/ InitConvert) /\ [][NextEsp32 \/ NextConvert]_vars

\* both sketches
Init == InitSerial \/ InitEsp32

Next == NextSerial \/ NextEsp32

Spec == Init /\ [][Next]_vars

-----------------------------------------------------------------------------
(* Claims *)

\* the engine move of a detected move string
DetectedMove(d) ==
    [from |-> get_square(d.move_str, 0), to |-> get_square(d.move_str, 2)]

\* squares whose bit differs between the two bitmaps of the detector
Differing ==
    {i \in BitIndexes : (i \in previous_board_state) # (i \in current_board_state)}

\* squares that went present -> empty (bit 0 -> 1)
Origins ==
    {i \in BitIndexes : i \notin previous_board_state /\ i \in current_board_state}

\* squares that went empty -> present (bit 1 -> 0)
Destinations ==
    {i \in BitIndexes : i \in previous_board_state /\ i \notin current_board_state}

\* the bit index (file*8 + 7-rank) named by two characters of a move string
NamedIndex(move_str, off) ==
    CHOOSE i \in BitIndexes \cup {-1} :
        \/ /\ i >= 0
           /\ move_str[off] = CH_a + (i \div 8)
           /\ move_str[off + 1] = CH_1 + (7 - (i % 8))
        \/ /\ i = -1
           /\ ~\E j \in BitIndexes :
                 /\ move_str[off] = CH_a + (j \div 8)
                 /\ move_str[off + 1] = CH_1 + (7 - (j % 8))

\* C1: detectMove returns a move exactly when two squares differ, one having
\* gone present -> empty and the other empty -> present; the move then names
\* the present -> empty square as origin and the empty -> present square as
\* destination. In every other case it returns no move.
C1_DetectMove ==
    (pc = "detect" /\ outcome = "Detected") =>
        IF /\ Cardinality(Differing) = 2
           /\ Cardinality(Origins) = 1
           /\ Cardinality(Destinations) = 1
        THEN /\ detected.found
             /\ NamedIndex(detected.move_str, 0) \in Origins
             /\ NamedIndex(detected.move_str, 2) \in Destinations
             /\ detected.move_str[4] = CH_NUL
        ELSE ~detected.found

C1_Witness ==
    /\ pc = "detect"
    /\ outcome = "Detected"
    /\ detected.found
    /\ Cardinality(Differing) = 2

\* C2: a poll whose change the detector does not recognise leaves the confirmed
\* bitmap current_board_state as it was.
C2_UnrecognizedKeepsB ==
    [][(pc = "serial" /\ outcome' = "Unrecognized")
         => current_board_state' = current_board_state]_vars

\* C3: a detected move that is not in the legal-move list, or that the engine
\* refuses to play, is reported as illegal, leaves the confirmed bitmap at its
\* value before the poll and leaves the engine position unchanged, in either
\* setting of simulation_mode.
C3_IllegalMoveRestoresB ==
    [][(pc = "serial" /\ outcome' = "IllegalMove")
         => /\ current_board_state' = current_board_state
            /\ current_board_state' = state_before_move'
            /\ position' = position]_vars

\* C4: a detected move that is in the legal-move list and that the engine
\* plays makes the polled snapshot the confirmed bitmap, and the engine
\* position is advanced by exactly that move when the reply is searched.
C4_AcceptedMoveCommitted ==
    [][(pc = "serial" /\ outcome' \in {"GameOver", "ReplyRejected", "ReplyPlayed"})
         => /\ detected'.found
            /\ DetectedMove(detected') \in valid_moves
            /\ current_board_state' = readBoardSensors
            /\ search_position' = Append(position, DetectedMove(detected'))
            /\ SubSeq(position', 1, Len(position) + 1) = search_position']_vars

C4_Witness ==
    /\ pc = "serial"
    /\ outcome = "ReplyPlayed"
    /\ current_board_state = new_board_state
    /\ Len(search_position) = 1

\* C5: when the reply to an accepted move has been played, the ignore flag is
\* set, and the next poll that sees a change while the flag is set absorbs it:
\* the snapshot becomes the confirmed bitmap, the flag is cleared, the detector
\* and the engine are not used; in either setting of simulation_mode.
C5_ReplyIsAbsorbed ==
    [][pc = "serial" =>
         /\ outcome' = "ReplyPlayed" => ignore_next_change'
         /\ (/\ ignore_next_change
             /\ readBoardSensors # current_board_state
             /\ outcome' # "PieceMoved")
            => /\ outcome' = "SelfMoveAbsorbed"
               /\ current_board_state' = readBoardSensors
               /\ ~ignore_next_change'
               /\ position' = position]_vars

\* the logical position of an axis
LogicalPosition(a) == IF a = "x" THEN current_x_steps ELSE current_y_steps

\* C6: after homing, an axis whose limit switch was found within the step guard
\* has its logical position reset to 0; an axis whose guard ran out is reported
\* (HomingGuardExceeded) and its logical position is not reset.
C6_HomingOutcome ==
    pc = "ready" =>
        \A a \in Axes :
            IF guard_exhausted[a]
            THEN outcome = "HomingGuardExceeded" /\ ~homed[a]
            ELSE homed[a] /\ LogicalPosition(a) = 0

HomingPcs ==
    {"home_x_seek", "home_x_backoff", "home_x_reapproach",
     "home_y_seek", "home_y_backoff", "home_y_reapproach", "home_reset"}

ExecPcs == {"from_x", "from_y", "magnet_on", "to_x", "to_y", "magnet_off"}

\* C7: once a homing run has exhausted its step guard, no step pulse is emitted
\* and the magnet is not engaged any more.
C7_NoMotionAfterGuard ==
    [][(/\ pc \in {"ready", "idle"} \cup ExecPcs
        /\ \E a \in Axes : guard_exhausted[a])
         => pulses' = pulses /\ magnet' = LOW]_vars

C9_MagnetFollowsTravel ==
    /\ pc \in {"from_x", "from_y", "magnet_on"} => magnet = LOW
    /\ pc \in {"to_x", "to_y", "magnet_off"} => magnet = HIGH
    /\ pc \notin ExecPcs => magnet = LOW
    /\ pc \in {"magnet_on", "to_x"} =>
          /\ current_x_steps = square_to_steps(ai_move.from).x
          /\ current_y_steps = square_to_steps(ai_move.from).y
    /\ pc = "magnet_off" =>
          /\ current_x_steps = square_to_steps(ai_move.to).x
          /\ current_y_steps = square_to_steps(ai_move.to).y

C9_Witness ==
    /\ pc = "magnet_off"
    /\ magnet = HIGH
    /\ current_y_steps # square_to_steps(ai_move.from).y

\* C10: when the reply to an accepted move is the INVALID sentinel, game over
\* is reported and nothing else happens: the engine position holds the
\* accepted move and no reply, the ignore flag is clear, the simulated bitmap
\* is unchanged, no step pulse is emitted and the magnet stays off.
C10_GameOverOnly ==
    [][outcome' = "GameOver"
         => /\ ai_move'.from = MCUMAX_SQUARE_INVALID
            /\ Len(position') = Len(position) + 1
            /\ position' = search_position'
            /\ ~ignore_next_change'
            /\ simulated_board_state' = simulated_board_state
            /\ pulses' = pulses
            /\ magnet' = LOW
            /\ pc' \in {"serial", "idle"}]_vars

C10_Witness ==
    /\ pc = "serial"
    /\ simulation_mode
    /\ outcome = "GameOver"
    /\ Len(position) = 1

\* C11: in simulation mode a submitted 4-character command whose move is not in
\* the engine's legal-move list leaves the simulated bitmap, the confirmed
\* bitmap, the ignore flag and the engine position as they were, and the
\* command buffer is cleared.
C11_RejectedCommandFrame ==
    [][(pc = "serial" /\ command_result' = "InvalidMove")
         => /\ simulation_mode
            /\ strlen(serial_input) = 4
            /\ simulated_board_state' = simulated_board_state
            /\ current_board_state' = current_board_state
            /\ ignore_next_change' = ignore_next_change
            /\ position' = position
            /\ strlen(serial_input') = 0]_vars

C11_Witness ==
    /\ pc = "serial"
    /\ simulation_mode
    /\ command_result = "InvalidMove"
    /\ strlen(serial_input) = 0
    /\ simulated_board_state = StartingPosition
    /\ position = << >>

\* the call of fn has returned
Returned(fn) == pc = "convert" /\ call.fn = fn /\ call.done

\* C12: squareToIndex(indexToSquare(i)) = i for every bit index i;
\* squareToIndex(s) = file*8 + (7 - rank) and indexToSquare(squareToIndex(s)) = s
\* for every square s of a1..h8; no two squares share a bit index.
C12_IndexRoundTrip ==
    /\ Returned("indexToSquare") =>
          /\ call.result \in AlgebraicSquares
          /\ squareToIndex(CStr(call.result)) = call.arg
    /\ Returned("squareToIndex") =>
          /\ call.result = (call.arg[1] - CH_a) * 8 + (7 - (call.arg[2] - CH_1))
          /\ call.result \in BitIndexes
          /\ indexToSquare(call.result) = call.arg
          /\ \A other \in AlgebraicSquares \ {call.arg} :
                squareToIndex(CStr(other)) # call.result

C12_Witness ==
    /\ Returned("squareToIndex")
    /\ call.arg = << CH_a + 4, CH_1 + 1 >>
    /\ call.result = 38

\* C13: get_square of a square of a1..h8 is the engine coordinate
\* 0x10*(8 - rank digit) + file, never INVALID, different for different squares,
\* and the text written for that coordinate is the square again; get_square of
\* two characters of which the first is outside a..h or the second outside
\* 1..8 is INVALID.
C13_EngineSquareRoundTrip ==
    /\ Returned("get_square") =>
          IF call.arg \in AlgebraicSquares
          THEN /\ call.result # MCUMAX_SQUARE_INVALID
               /\ call.result = 16 * (8 - (call.arg[2] - CH_1 + 1)) + (call.arg[1] - CH_a)
               /\ squareToChars(call.result) = call.arg
               /\ Chars(mcumaxMoveToString([from |-> call.result, to |-> call.result]))
                     = call.arg \o call.arg
               /\ \A other \in AlgebraicSquares \ {call.arg} :
                     get_square(CStr(other), 0) # call.result
          ELSE call.result = MCUMAX_SQUARE_INVALID
    /\ Returned("mcumaxMoveToString") =>
          /\ strlen(call.result) = 4
          /\ get_square(call.result, 0) = call.arg.from
          /\ get_square(call.result, 2) = call.arg.to

C13_Witness ==
    /\ Returned("get_square")
    /\ call.arg = << CH_a + 4, CH_1 + 1 >>
    /\ call.result = 100

\* C14: in simulation mode, the loop() run after a command was accepted by
\* validateAndSimulateMove detects the move, captures included, and hands it
\* to the engine.
C14_AcceptedCommandIsDetected ==
    [][(pc = "serial" /\ simulation_mode /\ command_result = "MoveSimulated")
         => /\ detected'.found
            /\ outcome' \in {"IllegalMove", "GameOver", "ReplyRejected", "ReplyPlayed"}
            /\ is_valid_move']_vars

\* C15: when get_serial_input of the gantry sketch returns true, the command
\* buffer holds exactly the characters typed since the last init_serial_input
\* (backspaces applied, at most 4 kept), and no write has landed outside
\* serial_input[0..4].
C15_CommandBufferIsTypedLine ==
    /\ ~oob_write
    /\ (call.fn = "get_serial_input" /\ call.done) => call.result = call.arg

\* C16, first part: a submitted command of the gantry sketch whose move is not
\* in the legal-move list is not played, emits no step pulse, leaves the magnet
\* and the logical position alone and ends with an empty command buffer; the
\* engine only ever plays a move found in the legal-move list.
RejectedCommandStep ==
    (outcome' = "InvalidMove" /\ ~is_valid_move')
        => /\ position' = position
           /\ pulses' = pulses
           /\ magnet' = magnet
           /\ current_x_steps' = current_x_steps
           /\ current_y_steps' = current_y_steps
           /\ strlen(serial_input') = 0
           /\ pc' = "idle"

OnlyLegalMovesPlayed ==
    position' # position
        => /\ is_valid_move'
           /\ position'[Len(position) + 1] \in valid_moves

RejectedCommandFrame ==
    [][(pc \in {"ready", "idle"})
         => (RejectedCommandStep /\ OnlyLegalMovesPlayed)]_vars

\* C16, second part: after a rejected command the next command can be
\* entered: the next line that is submitted is the line that was typed.
NextCommandEntered ==
    (outcome = "InvalidMove" /\ call'.done) => call'.result = call'.arg

\* C16: a malformed or illegal command submitted to the gantry sketch has no
\* effect on the engine, the steppers, the magnet or the logical position, and
\* the command buffer is cleared so that the next command can be entered.
C16_RejectedCommandEsp32 ==
    [][(pc \in {"ready", "idle"})
         => (RejectedCommandStep /\ OnlyLegalMovesPlayed /\ NextCommandEntered)]_vars

\* the phases of the running home_gantry that belong to one axis
RECURSIVE PhasesOf(_, _)
PhasesOf(log, a) ==
    IF log = << >> THEN << >>
    ELSE (IF Head(log).axis = a THEN << Head(log) >> ELSE << >>)
         \o PhasesOf(Tail(log), a)

\* the three phases come in order: seek toward home, HOMING_BACKOFF_STEPS
\* pulses away from home, re-approach toward home
HomingPhasesInOrder(ph) ==
    /\ Len(ph) <= 3
    /\ Len(ph) >= 1 => (ph[1].phase = "seek" /\ ph[1].dir = LOW)
    /\ Len(ph) >= 2 => /\ ph[2].phase = "backoff"
                       /\ ph[2].dir = HIGH
                       /\ ph[2].steps = HOMING_BACKOFF_STEPS
    /\ Len(ph) >= 3 => (ph[3].phase = "reapproach" /\ ph[3].dir = LOW)
    /\ \A i \in 1..Len(ph) :
          ph[i].phase \in {"seek", "reapproach"} /\ ph[i].active
              => ph[i].steps <= HOMING_GUARD

\* the back-off of an axis follows a seek that ended on an active limit sensor
BackoffAfterLimit(ph) == Len(ph) >= 2 => ph[1].active

\* C17: homing of an axis is a seek toward home that stops when the limit
\* sensor is active, then exactly HOMING_BACKOFF_STEPS pulses away from home,
\* then a re-approach toward home that stops when the limit sensor is active;
\* the back-off starts only after the limit sensor has reported active.
C17_HomingPhases ==
    \A a \in Axes :
        /\ HomingPhasesInOrder(PhasesOf(homing, a))
        /\ BackoffAfterLimit(PhasesOf(homing, a))

\* C18: the back-off and the re-approach of an axis use the same pulse delay,
\* and that delay is larger than the delay of the seek.
C18_HomingCadence ==
    \A a \in Axes :
        LET ph == PhasesOf(homing, a)
        IN  /\ Len(ph) >= 2 => ph[2].delay > ph[1].delay
            /\ Len(ph) >= 3 => ph[3].delay = ph[2].delay /\ ph[3].delay > ph[1].delay

\* pulses of the phases of a homing log
RECURSIVE PulsesOf(_)
PulsesOf(ph) == IF ph = << >> THEN 0 ELSE Head(ph).steps + PulsesOf(Tail(ph))

\* each seek or re-approach emits at most 50000 pulses, one axis at most
\* 50000 + HOMING_BACKOFF_STEPS + 50000
HomingPulseBound ==
    \A a \in Axes :
        LET ph == PhasesOf(homing, a)
        IN  /\ \A i \in 1..Len(ph) :
                  ph[i].phase \in {"seek", "reapproach"} => ph[i].steps <= HOMING_GUARD
            /\ PulsesOf(ph) <= HOMING_GUARD + HOMING_BACKOFF_STEPS + HOMING_GUARD

\* C19: home_gantry terminates whatever the limit sensors report, and the
\* pulses it emits stay within the step guard: at most 50000 per seek or
\* re-approach, at most 50000 + HOMING_BACKOFF_STEPS + 50000 per axis.
C19_HomingTerminates ==
    /\ []HomingPulseBound
    /\ <>(pc = "ready")

C19_Witness ==
    /\ pc = "ready"
    /\ Len(homing) = 6
    /\ PulsesOf(PhasesOf(homing, "x")) = HOMING_GUARD + HOMING_BACKOFF_STEPS + HOMING_GUARD
    /\ ~homing[6].active

\* C20: square_to_steps of an on-board engine square is
\* (file * X_STEPS_PER_SQUARE, (7 - row) * Y_STEPS_PER_SQUARE): rank 1 is y = 0,
\* different squares have different targets, both targets are within
\* 0..7 * pitch; so the logical position of the gantry stays within 0..7 * pitch
\* on both axes.
C20_SquareToSteps ==
    /\ Returned("square_to_steps") =>
          LET file == call.arg % 16
              row == call.arg \div 16
          IN  /\ call.result.x = file * X_STEPS_PER_SQUARE
              /\ call.result.y = (7 - row) * Y_STEPS_PER_SQUARE
              /\ row = 7 => call.result.y = 0
              /\ call.result.x \in 0..(7 * X_STEPS_PER_SQUARE)
              /\ call.result.y \in 0..(7 * Y_STEPS_PER_SQUARE)
              /\ \A other \in OnBoardSquares \ {call.arg} :
                    square_to_steps(other) # call.result
    /\ current_x_steps \in 0..(7 * X_STEPS_PER_SQUARE)
    /\ current_y_steps \in 0..(7 * Y_STEPS_PER_SQUARE)
    /\ pc \in {"magnet_on", "to_x"} =>
          /\ current_x_steps = (ai_move.from % 16) * X_STEPS_PER_SQUARE
          /\ current_y_steps = (7 - (ai_move.from \div 16)) * Y_STEPS_PER_SQUARE

C20_Witness ==
    /\ Returned("square_to_steps")
    /\ call.arg = 100
    /\ call.result = [x |-> 4 * X_STEPS_PER_SQUARE, y |-> Y_STEPS_PER_SQUARE]

C20_WitnessGantry ==
    /\ pc = "magnet_on"
    /\ current_x_steps = 4 * X_STEPS_PER_SQUARE
    /\ current_y_steps = 6 * Y_STEPS_PER_SQUARE

\* an engine square with file 0..7 and row 0..7
OnBoard(square) == square \in OnBoardSquares

\* C21: execute_bot_move drives the gantry only when both endpoints of the
\* move are on-board squares: for any other endpoint value, the INVALID
\* sentinel included, no step pulse is emitted, the magnet stays off and the
\* logical position is unchanged.
C21_OffBoardMoveNotExecuted ==
    [][(/\ pc \in {"execute"} \cup ExecPcs
        /\ ~(OnBoard(ai_move.from) /\ OnBoard(ai_move.to)))
         => /\ pulses' = pulses
            /\ magnet' = LOW
            /\ current_x_steps' = current_x_steps
            /\ current_y_steps' = current_y_steps]_vars

\* the flag is set only while the simulated reply is still to be absorbed
FlagMeansPendingReply ==
    ignore_next_change' => simulated_board_state' # current_board_state'

\* no command is simulated while the flag stays set
NoCommandWhileFlagSet ==
    (ignore_next_change /\ ignore_next_change') => command_result' # "MoveSimulated"

\* the change a poll absorbs was not made by a command
AbsorbedChangeIsReply ==
    outcome' = "SelfMoveAbsorbed" => command_result # "MoveSimulated"

\* C22: in simulation mode the ignore flag absorbs only the sketch's own
\* simulated reply: whenever the flag is set at the start of a poll the sensor
\* bitmap differs from the confirmed bitmap, no command is simulated between
\* the setting of the flag and the poll that clears it, and no change made by
\* a command is absorbed instead of being submitted to the engine.
C22_FlagAbsorbsOnlyReply ==
    [][(pc = "serial" /\ simulation_mode)
         => /\ FlagMeansPendingReply
            /\ NoCommandWhileFlagSet
            /\ AbsorbedChangeIsReply]_vars

=============================================================================
